---------------------------- MODULE Spec2Model ----------------------------
(***************************************************************************)
(* A model of go-decorator (src/decorator.go): the generator that reads an *)
(* interface and writes a decorator type for it, and the behaviour of the  *)
(* wrapper methods it writes.                                              *)
(*                                                                         *)
(* Text.  A Go string is modelled as a sequence of tokens.  A token is     *)
(* either one of the characters the program inspects ("*", ".", "/", the   *)
(* double quote) or a chunk of other characters (an identifier, a literal  *)
(* piece of a template).  Every string operation of the program is         *)
(* modelled on these sequences: strings.Trim, strings.Index, slicing,      *)
(* strings.HasPrefix, strings.HasSuffix, strings.Join, fmt.Sprintf.        *)
(* Identifiers that the program only copies and compares (names, the       *)
(* interface name) are TLA+ strings.                                       *)
(***************************************************************************)
EXTENDS Integers, Sequences, FiniteSets, TLC

(***************************************************************************)
(* Bounds of the model.                                                    *)
(***************************************************************************)
MaxParams == 2
MaxResults == 2
MaxMethods == 2
MaxImportFlags == 2
MaxRuns == 2
MaxClosureCalls == 2

(***************************************************************************)
(* Strings                                                                 *)
(***************************************************************************)
Nil == "nil"

QUOTE == "\""

\* A Go string held as one token; the empty string has no token.
Str(s) == IF s = "" THEN <<>> ELSE <<s>>

RECURSIVE Flatten(_)
\* Concatenation of a sequence of texts.
Flatten(ss) == IF ss = <<>> THEN <<>> ELSE Head(ss) \o Flatten(Tail(ss))

RECURSIVE TrimLeft(_, _)
TrimLeft(s, c) ==
    IF s # <<>> /\ Head(s) = c THEN TrimLeft(Tail(s), c) ELSE s

RECURSIVE TrimRight(_, _)
TrimRight(s, c) ==
    IF s # <<>> /\ s[Len(s)] = c THEN TrimRight(SubSeq(s, 1, Len(s) - 1), c) ELSE s

\* strings.Trim(s, c) for a one-character cutset: c removed at both ends.
Trim(s, c) == TrimRight(TrimLeft(s, c), c)

\* strings.Index(s, c): the 0-based index of the first c, -1 when there is none.
Index(s, c) ==
    IF \E i \in 1..Len(s) : s[i] = c
    THEN (CHOOSE i \in 1..Len(s) : s[i] = c /\ \A j \in 1..(i - 1) : s[j] # c) - 1
    ELSE -1

\* strings.LastIndex(s, c).
LastIndex(s, c) ==
    IF \E i \in 1..Len(s) : s[i] = c
    THEN (CHOOSE i \in 1..Len(s) : s[i] = c /\ \A j \in (i + 1)..Len(s) : s[j] # c) - 1
    ELSE -1

\* strings.HasPrefix(s, p).
HasPrefix(s, p) == Len(s) >= Len(p) /\ SubSeq(s, 1, Len(p)) = p

\* strings.HasSuffix(s, p).
HasSuffix(s, p) == Len(s) >= Len(p) /\ SubSeq(s, Len(s) - Len(p) + 1, Len(s)) = p

RECURSIVE Join(_, _)
\* strings.Join(ss, sep).
Join(ss, sep) ==
    IF ss = <<>> THEN <<>>
    ELSE IF Len(ss) = 1 THEN ss[1]
    ELSE ss[1] \o sep \o Join(Tail(ss), sep)

\* fmt.Sprintf("p%d", i) and the like: the decimal digits of i after a letter.
SprintfD(letter, i) == letter \o ToString(i)

Ellipsis == <<".", ".", ".">>


(***************************************************************************)
(* The signature model handed over by the parser (package go-parser):      *)
(* GoType, GoMethod, GoInterface, GoImport, GoFile.  A pointer to a        *)
(* descriptor is modelled by the place of the descriptor in the file.      *)
(***************************************************************************)
GoType(name, type, inner) == [Name |-> name, Type |-> type, Inner |-> inner]

GoMethod(name, params, results) == [Name |-> name, Params |-> params, Results |-> results]

GoInterface(name, methods) == [Name |-> name, Methods |-> methods]

GoImport(name, path) == [Name |-> name, Path |-> path]

GoFile(package, imports, interfaces) ==
    [Package |-> package, Imports |-> imports, Interfaces |-> interfaces]

\* GoImport.Prefix(): the alias when there is one, else the last segment of the path.
Prefix(goImport) ==
    IF goImport.Name # "" THEN <<goImport.Name>>
    ELSE LET path == Trim(goImport.Path, QUOTE)
             lastSlash == LastIndex(path, "/")
         IN  IF lastSlash = -1 THEN path ELSE SubSeq(path, lastSlash + 2, Len(path))

(***************************************************************************)
(* importList.Set: one -import flag.  The value loses the double quotes at *)
(* its ends and is wrapped in double quotes.                               *)
(***************************************************************************)
importListSet(i, value) == Append(i, <<QUOTE>> \o Trim(value, QUOTE) \o <<QUOTE>>)

(***************************************************************************)
(* The type reference resolver.                                            *)
(***************************************************************************)
RECURSIVE selectTypes(_)
selectTypes(goType) ==
    IF Len(goType.Inner) = 0 THEN <<goType.Type>>
    ELSE Flatten([k \in 1..Len(goType.Inner) |-> selectTypes(goType.Inner[k])])

RECURSIVE selectPrefixes(_)
selectPrefixes(typeNames) ==
    IF typeNames = <<>> THEN <<>>
    ELSE LET name == Trim(Head(typeNames), "*")
             index == Index(name, ".")
         IN  (IF index > -1 THEN <<SubSeq(name, 1, index)>> ELSE <<>>)
                 \o selectPrefixes(Tail(typeNames))

\* The leaves of one method: its parameters', then its results'.
methodTypes(method) ==
    Flatten([k \in 1..Len(method.Params) |-> selectTypes(method.Params[k])])
        \o Flatten([k \in 1..Len(method.Results) |-> selectTypes(method.Results[k])])

findPackages(goInterface) ==
    selectPrefixes(Flatten([k \in 1..Len(goInterface.Methods) |->
                               methodTypes(goInterface.Methods[k])]))

\* The inner loop of selectImports: the imports whose prefix is name, formatted.
importsNamed(allImports, name) ==
    Flatten([k \in 1..Len(allImports) |->
                IF name = Prefix(allImports[k])
                THEN << Str(allImports[k].Name) \o <<" ">> \o allImports[k].Path >>
                ELSE <<>>])

selectImports(allImports, selectedNames) ==
    Flatten([k \in 1..Len(selectedNames) |-> importsNamed(allImports, selectedNames[k])])

\* A faulty lookupImports: a request is dropped when selectImports resolved
\* the same path.
lookupImportsDedup(goInterface, allImports, flags) ==
    LET resolved == selectImports(allImports, findPackages(goInterface))
        kept(f) == \A k \in 1..Len(resolved) : ~HasSuffix(resolved[k], f)
    IN  SelectSeq(flags, kept) \o resolved

lookupImports(goInterface, allImports, flags) ==
    flags \o selectImports(allImports, findPackages(goInterface))

(***************************************************************************)
(* The naming normalizer.                                                  *)
(***************************************************************************)
\* A faulty methodReturnsError: no method is taken to return an error.
methodReturnsErrorNever(params) == FALSE

\* A faulty methodReturnsError: the name of the last result decides, not its type.
methodReturnsErrorByName(params) ==
    IF Len(params) = 0 THEN FALSE ELSE params[Len(params)].Name = "err"

methodReturnsError(params) ==
    IF Len(params) = 0 THEN FALSE ELSE params[Len(params)].Type = <<"error">>

\* A faulty nameParam: the names count from one.
nameParamOneBased(i, typeName, length) == SprintfD("p", i + 1)

nameParam(i, typeName, length) == SprintfD("p", i)

\* A faulty nameResult: every result of type error is called err.
nameResultAnyError(i, typeName, length) ==
    IF typeName = <<"error">> THEN "err" ELSE SprintfD("v", i)

nameResult(i, typeName, length) ==
    IF i = length - 1 /\ typeName = <<"error">> THEN "err" ELSE SprintfD("v", i)

\* A call of the function value handed to modifyNames.
callNameMethod(nameMethod, i, typeName, length) ==
    IF nameMethod = "nameParam" THEN nameParam(i, typeName, length)
    ELSE nameResult(i, typeName, length)

\* The descriptors after the loop: each one's Name assigned, in place.
modifyNames(params, nameMethod) ==
    [k \in 1..Len(params) |->
        [params[k] EXCEPT !.Name = callNameMethod(nameMethod, k - 1, params[k].Type, Len(params))]]

formatNameAndType(params) ==
    Join([k \in 1..Len(params) |-> Str(params[k].Name) \o <<" ">> \o params[k].Type],
         <<", ">>)

\* A faulty formatNames: a variadic parameter is not expanded.
formatNamesNoExpand(params, expandEllipsis) ==
    Join([k \in 1..Len(params) |-> Str(params[k].Name)], <<", ">>)

formatNames(params, expandEllipsis) ==
    Join([k \in 1..Len(params) |->
             IF expandEllipsis /\ HasPrefix(params[k].Type, Ellipsis)
             THEN Str(params[k].Name) \o Ellipsis
             ELSE Str(params[k].Name)],
         <<", ">>)

(***************************************************************************)
(* The templates.  A template is a sequence of literal pieces and          *)
(* positional placeholders %[n]s.                                          *)
(***************************************************************************)
Lit(s) == [lit |-> s]

Arg(n) == [arg |-> n]

structFormat ==
    << Lit("type "), Arg(1), Lit("Decorator struct {\n\tInner "), Arg(1),
       Lit("\n\tDecorator func(name string, call func() error) error\n}\n") >>

methodFormatWithErr ==
    << Lit("func (this * "), Arg(1), Lit("Decorator) "), Arg(2), Lit("("), Arg(3),
       Lit(") ("), Arg(4),
       Lit(") {\n\tcall := func() error {\n\t\tvar err error\n\t\t"),
       Arg(5), Lit(" "), Arg(7), Lit(" this.Inner."), Arg(2), Lit("("), Arg(6),
       Lit(")\n\t\treturn err\n\t}\n\terr = this.Decorator(\""), Arg(2),
       Lit("\", call)\n\treturn "), Arg(5), Lit("\n}\n") >>

methodFormatNoErr ==
    << Lit("func (this * "), Arg(1), Lit("Decorator) "), Arg(2), Lit("("), Arg(3),
       Lit(") ("), Arg(4),
       Lit(") {\n\tcall := func() error {\n\t\t"),
       Arg(5), Lit(" "), Arg(7), Lit(" this.Inner."), Arg(2), Lit("("), Arg(6),
       Lit(")\n\t\treturn nil\n\t}\n\t_ = this.Decorator(\""), Arg(2),
       Lit("\", call)\n\treturn "), Arg(5), Lit("\n}\n") >>

\* fmt.Sprintf(template, args...): every placeholder replaced by its argument.
Sprintf(template, args) ==
    Flatten([k \in 1..Len(template) |->
                IF "arg" \in DOMAIN template[k] THEN args[template[k].arg]
                ELSE <<template[k].lit>>])

(***************************************************************************)
(* The code synthesizer.  writeMethod names the descriptors of the method  *)
(* in place and returns the text; the model returns both, with the lists   *)
(* the text is made of.                                                    *)
(***************************************************************************)
writeMethod(method, name) ==
    LET template == IF methodReturnsError(method.Results)
                    THEN methodFormatWithErr ELSE methodFormatNoErr
        named == [method EXCEPT !.Params = modifyNames(method.Params, "nameParam"),
                                !.Results = modifyNames(method.Results, "nameResult")]
        params == formatNameAndType(named.Params)
        returns == formatNameAndType(named.Results)
        passArgs == formatNames(named.Params, TRUE)
        returnArgs == formatNames(named.Results, FALSE)
        equals == IF Len(named.Results) > 0 THEN "=" ELSE ""
    IN  [method |-> named, template |-> template, params |-> params,
         returns |-> returns, passArgs |-> passArgs, returnArgs |-> returnArgs,
         equals |-> equals,
         text |-> Sprintf(template, << Str(name), Str(named.Name), params, returns,
                                       returnArgs, passArgs, Str(equals) >>)]

(***************************************************************************)
(* The output assembler.  format.Source (package go/format) is outside the *)
(* program: it either fails or returns the canonical text, which here      *)
(* differs from the raw text in the line break after the opening of the    *)
(* import block.                                                           *)
(***************************************************************************)
GoFormat(src) == [k \in 1..Len(src) |-> IF src[k] = "import (" THEN "import (\n" ELSE src[k]]

\* A faulty formatSource: nothing is returned when format.Source fails.
formatSourceDropsRaw(buf, fmtOk) ==
    IF ~fmtOk
    THEN [bytes |-> <<>>,
          logged |-> << "warning: internal error: invalid Go generated",
                        "warning: compile the package to analyze the error" >>]
    ELSE [bytes |-> GoFormat(buf), logged |-> <<>>]

\* formatSource(buf) when format.Source answers fmtOk: the bytes returned and
\* the lines logged.
formatSource(buf, fmtOk) ==
    IF ~fmtOk
    THEN [bytes |-> buf,
          logged |-> << "warning: internal error: invalid Go generated",
                        "warning: compile the package to analyze the error" >>]
    ELSE [bytes |-> GoFormat(buf), logged |-> <<>>]

\* The methods of the interface after the loop of writeDecorator, and their texts.
writeMethods(goInterface) ==
    [k \in 1..Len(goInterface.Methods) |-> writeMethod(goInterface.Methods[k], goInterface.Name)]

\* packageName is goInterface.File.Package, flags the package variable
\* importFlag.  The text of a method is written with fmt.Fprintf(b, methodBody);
\* the type texts of the model hold no "%", so it is written as it is.
writeDecorator(goInterface, packageName, allImports, flags, fmtOk) ==
    LET imports == lookupImports(goInterface, allImports, flags)
        written == writeMethods(goInterface)
        b == << "// Generated by go-decorator, DO NOT EDIT\n" >>
                 \o << "package " >> \o Str(packageName) \o << "\n" >>
                 \o << "import (" >>
                 \o Flatten([k \in 1..Len(imports) |-> << "\t" >> \o imports[k] \o << "\n" >>])
                 \o << ")\n" >>
                 \o Sprintf(structFormat, << Str(goInterface.Name) >>)
                 \o Flatten([k \in 1..Len(written) |-> written[k].text])
        formatted == formatSource(b, fmtOk)
    IN  [imports |-> imports,
         selected |-> selectImports(allImports, findPackages(goInterface)),
         methods |-> [k \in 1..Len(written) |-> written[k].method],
         b |-> b, output |-> formatted.bytes, logged |-> formatted.logged]

\* A faulty filterTypes: the last interface called name is returned.
filterTypesLast(types, name) ==
    IF \E k \in 1..Len(types.Interfaces) : types.Interfaces[k].Name = name
    THEN CHOOSE k \in 1..Len(types.Interfaces) :
             /\ types.Interfaces[k].Name = name
             /\ \A j \in (k + 1)..Len(types.Interfaces) : types.Interfaces[j].Name # name
    ELSE 0

\* filterTypes: the place of the first interface called name, 0 when there is none.
filterTypes(types, name) ==
    IF \E k \in 1..Len(types.Interfaces) : types.Interfaces[k].Name = name
    THEN CHOOSE k \in 1..Len(types.Interfaces) :
             /\ types.Interfaces[k].Name = name
             /\ \A j \in 1..(k - 1) : types.Interfaces[j].Name # name
    ELSE 0

\* getInputPath: the first positional argument, the empty string without one.
getInputPath(args) == IF Len(args) = 0 THEN <<>> ELSE args[1]

(***************************************************************************)
(* The inputs of a run.                                                    *)
(***************************************************************************)
SeqsUpTo(S, n) == UNION {[1..k -> S] : k \in 0..n}

Injective(f) == \A i, j \in DOMAIN f : i # j => f[i] # f[j]

t_string == GoType("", <<"string">>, <<>>)
t_error == GoType("", <<"error">>, <<>>)
t_osFile == GoType("", <<"os", ".", "File">>, <<>>)
t_ptrOsFile == GoType("", <<"*", "os", ".", "File">>, <<>>)
t_variadic == GoType("args", Ellipsis \o <<"interface{}">>, <<>>)
t_readers ==
    GoType("", <<"[]", "strings", ".", "Reader">>,
           << GoType("", <<"strings", ".", "Reader">>, <<>>) >>)
t_encoding == GoType("", <<"base64", ".", "Encoding">>, <<>>)

\* Methods of the interface Sample, src/decorator.go lines 21-32.
SampleDo == GoMethod("Do", <<>>, <<>>)
SampleMaybe == GoMethod("Maybe", <<>>, <<t_error>>)
SampleRemote == GoMethod("Remote", <<t_osFile>>, <<t_readers, t_ptrOsFile, t_error>>)
SampleRange ==
    GoMethod("Range", << GoType("format", <<"string">>, <<>>), t_variadic >>, <<>>)
SamplePrefix == GoMethod("Prefix", <<t_encoding>>, <<t_error>>)

MethodPool == {SampleDo, SampleMaybe, SampleRemote, SampleRange, SamplePrefix}

\* The methods of one interface: distinct, in any order.
MethodSeqs == {ms \in SeqsUpTo(MethodPool, MaxMethods) : Injective(ms)}

imp_os == GoImport("", <<QUOTE, "os", QUOTE>>)
imp_strings == GoImport("", <<QUOTE, "strings", QUOTE>>)
imp_base64 == GoImport("", <<QUOTE, "encoding", "/", "base64", QUOTE>>)
imp_alias == GoImport("strings", <<QUOTE, "example.com", "/", "text", QUOTE>>)

ImportLists == { <<>>, <<imp_base64, imp_os, imp_strings>>, <<imp_alias, imp_os>> }

InterfaceLists ==
    { <<>> } \cup
    UNION { { << GoInterface("Sample", ms) >>,
              << GoInterface("Other", <<SampleDo>>), GoInterface("Sample", ms) >>,
              << GoInterface("Sample", ms), GoInterface("Sample", <<>>) >> } :
            ms \in MethodSeqs }

Files == { GoFile("main", imps, ifaces) : imps \in ImportLists, ifaces \in InterfaceLists }

TypeNames == {"", "Sample", "Missing"}

ArgLists == { <<>>, << <<"sample", ".go">> >>, << <<"sample", ".txt">> >> }

ImportValues == { <<"os">>, <<QUOTE, "example.com", "/", "log", QUOTE>> }

(***************************************************************************)
(* The state of a run of the program.                                      *)
(*   pc          where main is                                             *)
(*   typeName    the -type flag                                            *)
(*   args        the positional arguments                                  *)
(*   importFlag  the -import flags set so far                              *)
(*   types       the pointer parsePackage returned: <<>> for nil (and      *)
(*               before the call), else << the file >>                     *)
(*   match       the place in types.Interfaces of the interface found      *)
(*   imports     the import list of the last writeDecorator                *)
(*   selected    the part of it that selectImports resolved                *)
(*   raws        the buffer of every writeDecorator so far, unformatted    *)
(*   fmtErr      the error format.Source returned last (Nil for none)      *)
(*   output      what writeDecorator returned last                         *)
(*   stdout      what was printed on the standard output                   *)
(*   logged      the lines logged                                          *)
(*   exit        how the process ended                                     *)
(* The state of one writeMethod, and of one call of a generated wrapper:   *)
(*   method0     a method as parsed                                        *)
(*   method      the same method, its descriptors named in place           *)
(*   written     what writeMethod made of it (<<>> before)                 *)
(*   w           the call of the wrapper method                            *)
(***************************************************************************)
VARIABLES pc, typeName, args, importFlag, types, match, imports, selected,
          raws, fmtErr, output, stdout, logged, exit, method0, method, written, w

mainVars == << typeName, args, importFlag, types, match, imports, selected,
               raws, fmtErr, output, stdout, logged, exit >>

methodVars == << method0, method, written >>

vars == << pc, mainVars, methodVars, w >>

NoMethod == GoMethod("", <<>>, <<>>)

NoCall ==
    [pc |-> "idle", named |-> <<>>, closureRets |-> <<>>, captured |-> <<>>,
     decoCalls |-> 0, decoName |-> "", decoRet |-> Nil, ret |-> <<>>]

MainInit ==
    /\ typeName \in TypeNames
    /\ args \in ArgLists
    /\ importFlag = <<>>
    /\ types = <<>>
    /\ match = 0
    /\ imports = <<>>
    /\ selected = <<>>
    /\ raws = <<>>
    /\ fmtErr = Nil
    /\ output = <<>>
    /\ stdout = <<>>
    /\ logged = <<>>
    /\ exit = "running"

Init ==
    /\ pc = "flags"
    /\ MainInit
    /\ method0 = NoMethod
    /\ method = NoMethod
    /\ written = <<>>
    /\ w = NoCall

\* flag.Parse meets one -import flag.
FlagImport(value) ==
    /\ pc = "flags"
    /\ Len(importFlag) < MaxImportFlags
    /\ importFlag' = importListSet(importFlag, value)
    /\ UNCHANGED << pc, typeName, args, types, match, imports, selected, raws,
                    fmtErr, output, stdout, logged, exit, methodVars, w >>

\* main, from the end of flag.Parse to the call of parsePackage.
Main ==
    /\ pc = "flags"
    /\ IF Len(typeName) = 0
       THEN /\ logged' = Append(logged, "Usage")
            /\ exit' = "exit 2"
            /\ pc' = "done"
       ELSE /\ logged' = logged \o << "Type Name", "Searching", "Additional paths" >>
            /\ exit' = exit
            /\ pc' = "parse"
    /\ UNCHANGED << typeName, args, importFlag, types, match, imports, selected,
                    raws, fmtErr, output, stdout, methodVars, w >>

\* parsePackage: nil for a name that does not end in ".go", else what the
\* parser returns, a file or a failure (which is fatal).
ParsePackage ==
    /\ pc = "parse"
    /\ IF ~HasSuffix(getInputPath(args), <<".go">>)
       THEN /\ types' = <<>>
            /\ pc' = "filter"
            /\ UNCHANGED << logged, exit >>
       ELSE \/ \E goFile \in Files :
                 /\ types' = <<goFile>>
                 /\ pc' = "filter"
                 /\ UNCHANGED << logged, exit >>
            \/ /\ logged' = Append(logged, "Failed to parse")
               /\ exit' = "exit 1"
               /\ pc' = "done"
               /\ UNCHANGED types
    /\ UNCHANGED << typeName, args, importFlag, match, imports, selected, raws,
                    fmtErr, output, stdout, methodVars, w >>

\* filterTypes, called by main.  Reading types.Interfaces of a nil file panics.
FilterTypes ==
    /\ pc = "filter"
    /\ IF types = <<>>
       THEN /\ logged' = Append(logged, "panic: nil pointer dereference")
            /\ exit' = "panic"
            /\ pc' = "done"
            /\ match' = match
       ELSE IF filterTypes(types[1], typeName) = 0
       THEN /\ logged' = Append(logged, "Interface not found")
            /\ exit' = "exit 1"
            /\ pc' = "done"
            /\ match' = match
       ELSE /\ match' = filterTypes(types[1], typeName)
            /\ pc' = "write"
            /\ UNCHANGED << logged, exit >>
    /\ UNCHANGED << typeName, args, importFlag, types, imports, selected, raws,
                    fmtErr, output, stdout, methodVars, w >>

\* One writeDecorator on the interface found: the descriptors are named in
\* place, the buffer is formatted (format.Source succeeds or fails).  d is
\* what the call computes.
RunWriteDecorator(fmtOk) ==
    \E d \in { writeDecorator(types[1].Interfaces[match], types[1].Package,
                              types[1].Imports, importFlag, fmtOk) } :
        /\ types' = [types EXCEPT ![1].Interfaces[match].Methods = d.methods]
        /\ imports' = d.imports
        /\ selected' = d.selected
        /\ raws' = Append(raws, d.b)
        /\ fmtErr' = IF fmtOk THEN Nil ELSE "format error"
        /\ output' = d.output
        /\ logged' = logged \o d.logged

WriteDecorator ==
    /\ pc = "write"
    /\ \E fmtOk \in BOOLEAN : RunWriteDecorator(fmtOk)
    /\ pc' = "print"
    /\ UNCHANGED << typeName, args, importFlag, match, stdout, exit, methodVars, w >>

\* The end of main: the length is logged, the output printed.
PrintOutput ==
    /\ pc = "print"
    /\ logged' = Append(logged, "len")
    /\ stdout' = Append(stdout, output)
    /\ exit' = "exit 0"
    /\ pc' = "done"
    /\ UNCHANGED << typeName, args, importFlag, types, match, imports, selected,
                    raws, fmtErr, output, methodVars, w >>

Next ==
    \/ \E value \in ImportValues : FlagImport(value)
    \/ Main
    \/ ParsePackage
    \/ FilterTypes
    \/ WriteDecorator
    \/ PrintOutput

Spec == Init /\ [][Next]_vars

(***************************************************************************)
(* The synthesis run again on the model the first run left behind.  The    *)
(* runs start where main calls writeDecorator: the flags are parsed, the   *)
(* file is parsed, the interface is found.                                 *)
(***************************************************************************)
FlagLists == { <<>>, importListSet(<<>>, <<"os">>) }

InitTwice ==
    /\ pc = "write"
    /\ typeName = "Sample"
    /\ args = << <<"sample", ".go">> >>
    /\ importFlag \in FlagLists
    /\ \E goFile \in Files :
          /\ filterTypes(goFile, typeName) # 0
          /\ types = <<goFile>>
          /\ match = filterTypes(goFile, typeName)
    /\ imports = <<>>
    /\ selected = <<>>
    /\ raws = <<>>
    /\ fmtErr = Nil
    /\ output = <<>>
    /\ stdout = <<>>
    /\ logged = << "Type Name", "Searching", "Additional paths" >>
    /\ exit = "running"
    /\ method0 = NoMethod
    /\ method = NoMethod
    /\ written = <<>>
    /\ w = NoCall

WriteDecoratorAgain ==
    /\ pc = "done"
    /\ exit = "exit 0"
    /\ Len(raws) < MaxRuns
    /\ \E fmtOk \in BOOLEAN : RunWriteDecorator(fmtOk)
    /\ UNCHANGED << pc, typeName, args, importFlag, match, stdout, exit, methodVars, w >>

NextTwice ==
    \/ WriteDecorator
    \/ PrintOutput
    \/ WriteDecoratorAgain

SpecTwice == InitTwice /\ [][NextTwice]_vars

(***************************************************************************)
(* writeMethod alone, on one method.                                       *)
(***************************************************************************)
ParamPool ==
    { GoType("", <<"string">>, <<>>),
      GoType("p1", <<"*", "os", ".", "File">>, <<>>),
      GoType("err", Ellipsis \o <<"interface{}">>, <<>>),
      GoType("s", <<"error">>, <<>>) }

ResultPool ==
    { GoType("", <<"error">>, <<>>),
      GoType("err", <<"string">>, <<>>),
      GoType("v0", <<"error">>, <<>>),
      GoType("e", <<"[]", "strings", ".", "Reader">>,
             << GoType("", <<"strings", ".", "Reader">>, <<>>) >>) }

MethodInputs ==
    { GoMethod("Call", params, results) :
        params \in SeqsUpTo(ParamPool, MaxParams),
        results \in SeqsUpTo(ResultPool, MaxResults) }

MainIdle ==
    /\ typeName = "Sample"
    /\ args = <<>>
    /\ importFlag = <<>>
    /\ types = <<>>
    /\ match = 0
    /\ imports = <<>>
    /\ selected = <<>>
    /\ raws = <<>>
    /\ fmtErr = Nil
    /\ output = <<>>
    /\ stdout = <<>>
    /\ logged = <<>>
    /\ exit = "running"

InitMethod ==
    /\ pc = "writeMethod"
    /\ MainIdle
    /\ method0 \in MethodInputs
    /\ method = method0
    /\ written = <<>>
    /\ w = NoCall

\* writeMethod(method, typeName): the descriptors are named in place.
WriteMethodStep ==
    /\ pc = "writeMethod"
    /\ written' = << writeMethod(method, typeName) >>
    /\ method' = written'[1].method
    /\ pc' = "written"
    /\ UNCHANGED << mainVars, method0, w >>

NextMethod == WriteMethodStep

SpecMethod == InitMethod /\ [][NextMethod]_vars

(***************************************************************************)
(* A call of the wrapper method that writeMethod wrote.  this.Inner and    *)
(* this.Decorator are the caller's: the inner method returns any values,   *)
(* the interception function calls the closure any number of times and     *)
(* returns any error.                                                      *)
(***************************************************************************)
IsErrorType(goType) == goType.Type = <<"error">>

\* The zero value of a result.
Zero(goType) == IF IsErrorType(goType) THEN Nil ELSE ""

\* What the inner method may return.
InnerResults(results) ==
    { r \in [1..Len(results) -> {Nil, "E1", "a", "b"}] :
        \A k \in 1..Len(results) :
            IF IsErrorType(results[k]) THEN r[k] \in {Nil, "E1"} ELSE r[k] \in {"a", "b"} }

\* What the interception function may return.
DecoratorErrors == {Nil, "E1", "E2"}

\* The names on the left of the forwarding statement, %[5]s before the join.
resultNames(results) == [k \in 1..Len(results) |-> results[k].Name]

\* One run of the closure `call`, the inner method returning r.  With
\* methodFormatWithErr the closure declares its own err: the name err on the
\* left is that variable, every other name a result of the wrapper, and the
\* closure returns its err.  With methodFormatNoErr every name on the left is
\* a result of the wrapper and the closure returns nil.
closureCall(template, names, named, r) ==
    IF template = methodFormatWithErr
    THEN [named |-> [k \in 1..Len(names) |-> IF names[k] = "err" THEN named[k] ELSE r[k]],
          ret |-> IF \E k \in 1..Len(names) : names[k] = "err"
                  THEN r[CHOOSE k \in 1..Len(names) : names[k] = "err"]
                  ELSE Nil]
    ELSE [named |-> r, ret |-> Nil]

\* A faulty template: the error of this.Decorator is assigned to the last
\* result whatever the template.
afterDecoratorAssigns(template, names, named, e) ==
    [k \in 1..Len(names) |-> IF k = Len(names) THEN e ELSE named[k]]

\* The statement after the closure: `err = this.Decorator(...)` assigns the
\* result called err, `_ = this.Decorator(...)` assigns nothing.
afterDecorator(template, names, named, e) ==
    IF template = methodFormatWithErr
    THEN [k \in 1..Len(names) |-> IF names[k] = "err" THEN e ELSE named[k]]
    ELSE named

WrapperMethods ==
    { GoMethod("Call", <<>>, results) : results \in SeqsUpTo({t_string, t_error}, MaxResults) }

InitWrapper ==
    /\ pc = "writeMethod"
    /\ MainIdle
    /\ method0 \in WrapperMethods
    /\ method = method0
    /\ written = <<>>
    /\ w = NoCall

\* The wrapper is called: its results hold their zero values, and it calls
\* this.Decorator with the method's name and the closure.
WrapperCall ==
    /\ pc = "written"
    /\ w.pc = "idle"
    /\ w' = [w EXCEPT !.pc = "decorating",
                      !.named = [k \in 1..Len(method.Results) |-> Zero(method.Results[k])],
                      !.decoCalls = w.decoCalls + 1,
                      !.decoName = method.Name]
    /\ UNCHANGED << pc, mainVars, methodVars >>

\* The interception function calls the closure.
ClosureCall ==
    /\ w.pc = "decorating"
    /\ Len(w.closureRets) < MaxClosureCalls
    /\ \E r \in InnerResults(method.Results) :
          LET c == closureCall(written[1].template, resultNames(method.Results), w.named, r)
          IN  w' = [w EXCEPT !.named = c.named,
                             !.closureRets = Append(w.closureRets, c.ret),
                             !.captured = r]
    /\ UNCHANGED << pc, mainVars, methodVars >>

\* The interception function returns e, and the wrapper returns its results.
DecoratorReturn ==
    /\ w.pc = "decorating"
    /\ \E e \in DecoratorErrors :
          LET named == afterDecorator(written[1].template, resultNames(method.Results),
                                      w.named, e)
          IN  w' = [w EXCEPT !.pc = "returned", !.decoRet = e, !.named = named,
                             !.ret = named]
    /\ UNCHANGED << pc, mainVars, methodVars >>

NextWrapper ==
    \/ WriteMethodStep
    \/ WrapperCall
    \/ ClosureCall
    \/ DecoratorReturn

SpecWrapper == InitWrapper /\ [][NextWrapper]_vars

(***************************************************************************)
(* Properties of the wrapper methods (SpecWrapper).                        *)
(***************************************************************************)
\* A method is error-terminated when it has results and the type text of the
\* last one is "error".  Stated on the method as parsed.
ErrorTerminated(m) ==
    /\ Len(m.Results) > 0
    /\ m.Results[Len(m.Results)].Type = <<"error">>

ZeroResults(m) == [k \in 1..Len(m.Results) |-> Zero(m.Results[k])]

\* C1: for an error-terminated method, a call of the wrapper calls the
\* interception function exactly once, with the method's name, and the error
\* the wrapper returns is the one the interception function returned,
\* whatever the closure returned and however often it was called; the other
\* results are those of the last call of the inner method, whose error is
\* what the closure returns.
C1_WrapperReturnsInterceptionError ==
    ErrorTerminated(method0) =>
        /\ w.pc \in {"decorating", "returned"} =>
              /\ w.decoCalls = 1
              /\ w.decoName = method0.Name
        /\ w.pc = "returned" =>
              /\ Len(w.ret) = Len(method0.Results)
              /\ w.ret[Len(w.ret)] = w.decoRet
              /\ \A k \in 1..(Len(w.ret) - 1) :
                    w.ret[k] = IF w.closureRets = <<>> THEN Zero(method0.Results[k])
                               ELSE w.captured[k]
        /\ w.closureRets # <<>> =>
              w.closureRets[Len(w.closureRets)] = w.captured[Len(method0.Results)]

\* The inner method failed twice, the closure returned its error, the
\* interception function returned nil and so did the wrapper.
C1_Witness ==
    /\ ErrorTerminated(method0)
    /\ Len(method0.Results) = 2
    /\ w.pc = "returned"
    /\ w.closureRets = <<"E1", "E1">>
    /\ w.captured[2] = "E1"
    /\ w.decoRet = Nil
    /\ w.ret[2] = Nil

\* C2: for a method that is not error-terminated, the closure returns nil at
\* every call, and the wrapper returns the values the last call of the inner
\* method gave (the zero values when the closure was never called), whatever
\* the interception function returned.
C2_WrapperDiscardsInterceptionError ==
    ~ErrorTerminated(method0) =>
        /\ \A k \in 1..Len(w.closureRets) : w.closureRets[k] = Nil
        /\ w.pc = "returned" =>
              w.ret = IF w.closureRets = <<>> THEN ZeroResults(method0) ELSE w.captured

\* A method returning (error, string): the closure ran twice, the inner
\* method failed, the interception function returned an error of its own, and
\* the wrapper returned what the inner method gave.
C2_Witness ==
    /\ ~ErrorTerminated(method0)
    /\ Len(method0.Results) = 2
    /\ IsErrorType(method0.Results[1])
    /\ w.pc = "returned"
    /\ Len(w.closureRets) = 2
    /\ w.decoRet = "E2"
    /\ w.captured = <<"E1", "b">>
    /\ w.ret = <<"E1", "b">>

(***************************************************************************)
(* Properties of writeMethod (SpecMethod).                                 *)
(***************************************************************************)
PNames == << "p0", "p1", "p2", "p3", "p4", "p5" >>

VNames == << "v0", "v1", "v2", "v3", "v4", "v5" >>

Written == pc = "written" /\ written # <<>>

\* The places of a token in a text.
Places(text, token) == {k \in 1..Len(text) : text[k] = token}

\* C3: after the naming pass the last result is called err exactly when its
\* type text is "error", every other result is called v<i> by its place (a
\* result of type error that is not the last one too), whatever the names
\* were before; the names of one result list are pairwise distinct and the
\* types are untouched.
C3_ResultNames ==
    Written =>
        LET n == Len(method0.Results) IN
        /\ Len(method.Results) = n
        /\ \A i \in 1..n :
              /\ method.Results[i].Name =
                    IF i = n /\ method0.Results[i].Type = <<"error">>
                    THEN "err" ELSE VNames[i]
              /\ method.Results[i].Type = method0.Results[i].Type
        /\ \A i, j \in 1..n : i # j => method.Results[i].Name # method.Results[j].Name

\* Two results of type error, both called v0 in the source: the first is
\* named v0, the last err.
C3_Witness ==
    /\ Written
    /\ Len(method0.Results) = 2
    /\ \A i \in 1..2 : method0.Results[i] = GoType("v0", <<"error">>, <<>>)
    /\ method.Results[1].Name = "v0"
    /\ method.Results[2].Name = "err"

\* C4: the parameter list rendered by writeMethod has one entry for each of
\* the N parameters, in the order of the declaration: the i-th entry is the
\* name p<i>, a space and the type text of the i-th parameter as parsed,
\* whatever the types and the names in the source.
C4_ParamList ==
    Written =>
        LET n == Len(method0.Params)
            entry(i) == << PNames[i], " " >> \o method0.Params[i].Type
        IN  /\ written[1].params = Join([i \in 1..n |-> entry(i)], << ", " >>)
            /\ Cardinality(Places(written[1].params, ", ")) = IF n = 0 THEN 0 ELSE n - 1
            /\ \A i \in 1..n : Cardinality(Places(written[1].params, PNames[i])) = 1

\* Two parameters called err and p1 in the source, the first variadic, the
\* second a pointer: they are rendered as p0 and p1 with their types.
C4_Witness ==
    /\ Written
    /\ method0.Params = << GoType("err", Ellipsis \o <<"interface{}">>, <<>>),
                           GoType("p1", <<"*", "os", ".", "File">>, <<>>) >>
    /\ written[1].params = << "p0", " ", ".", ".", ".", "interface{}", ", ",
                              "p1", " ", "*", "os", ".", "File" >>

\* The type text starts with "...".
Variadic(goType) ==
    /\ Len(goType.Type) >= 3
    /\ \A k \in 1..3 : goType.Type[k] = "."

\* C5: the forwarding arguments are the parameter names in the order of the
\* declaration, a name followed by "..." exactly when the type text of its
\* parameter starts with "..."; the return-value list is the result names
\* alone, never with the suffix.
C5_ForwardingArguments ==
    Written =>
        LET n == Len(method0.Params)
            r == Len(method0.Results)
            argument(i) == IF Variadic(method0.Params[i])
                           THEN << PNames[i], ".", ".", "." >> ELSE << PNames[i] >>
        IN  /\ written[1].passArgs = Join([i \in 1..n |-> argument(i)], << ", " >>)
            /\ written[1].returnArgs =
                  Join([i \in 1..r |-> << method.Results[i].Name >>], << ", " >>)
            /\ Places(written[1].returnArgs, ".") = {}

\* Range(format string, args ...interface{}): the arguments are p0, p1...
C5_Witness ==
    /\ Written
    /\ Len(method0.Params) = 2
    /\ ~Variadic(method0.Params[1])
    /\ Variadic(method0.Params[2])
    /\ written[1].passArgs = << "p0", ", ", "p1", ".", ".", "." >>
    /\ Len(method0.Results) = 2

(***************************************************************************)
(* Properties of a run (Spec) and of repeated synthesis (SpecTwice).       *)
(***************************************************************************)
\* writeDecorator has run.
Generated == raws # <<>>

\* The interface main found.
Found == types[1].Interfaces[match]

Elements(seq) == {seq[k] : k \in 1..Len(seq)}

\* An import declaration as an entry of the import list: "alias path".
Entry(goImport) == Str(goImport.Name) \o << " " >> \o goImport.Path

\* The declarations of the file whose prefix some parameter or result of the
\* interface found refers to.
MatchingImports ==
    {k \in 1..Len(types[1].Imports) :
        Prefix(types[1].Imports[k]) \in Elements(findPackages(Found))}

\* A leaf type text qualified by a package: an identifier before a ".".
Qualified(leaf) == \E k \in 2..Len(leaf) : leaf[k] = "." /\ leaf[k - 1] \notin {".", "*"}

Leaves(goInterface) ==
    Elements(Flatten([k \in 1..Len(goInterface.Methods) |->
                         methodTypes(goInterface.Methods[k])]))

\* The resolved imports are those of the matching declarations and no other.
ResolvedAreMatching ==
    Generated => Elements(selected) = {Entry(types[1].Imports[k]) : k \in MatchingImports}

\* An interface of unqualified types only resolves to nothing.
UnqualifiedResolveToNothing ==
    (Generated /\ \A leaf \in Leaves(Found) : ~Qualified(leaf)) =>
        selected = <<>> /\ imports = importFlag

\* No resolved import is listed twice.
ResolvedOnce ==
    Generated => \A i, j \in 1..Len(selected) : i # j => selected[i] # selected[j]

\* C6: the resolved part of the import list is the minimal subset of the
\* import declarations of the file whose prefix a parameter or result of the
\* interface refers to: every matching declaration is listed, no other is,
\* and none is listed more than once; an interface of unqualified types only
\* resolves to nothing.
C6_ResolvedImportsMinimal ==
    /\ ResolvedAreMatching
    /\ UnqualifiedResolveToNothing
    /\ ResolvedOnce

\* The import block of the raw text: what stands between "import (" and the
\* struct declaration.
ImportBlock(raw) ==
    LET from == Index(raw, "import (") + 2
        to == Index(raw, "type ")
    IN  SubSeq(raw, from, to)

\* C7: the import list starts with every -import request, in the order of the
\* command line, referenced by the interface or not; the resolved imports
\* follow; a request stays even when the same path is resolved too.  The raw
\* text lists them in that order, one to a line.
C7_RequestsFirst ==
    Generated =>
        /\ imports = importFlag \o selected
        /\ ImportBlock(raws[Len(raws)]) =
              Flatten([k \in 1..Len(imports) |-> << "\t" >> \o imports[k] \o << "\n" >>])
              \o << ")\n" >>

\* Two requests, the first for "os", and an interface that refers to os: the
\* list holds the request "os" and the resolved  "os" both.
C7_Witness ==
    /\ Generated
    /\ Len(importFlag) = 2
    /\ importFlag[1] = << QUOTE, "os", QUOTE >>
    /\ importFlag[2] # importFlag[1]
    /\ << " ", QUOTE, "os", QUOTE >> \in Elements(selected)
    /\ imports[1] = << QUOTE, "os", QUOTE >>

\* C8: every synthesis of the same interface, imports and requests writes the
\* same raw text, although the first has named the descriptors in place.
C8_SameTextEveryRun ==
    \A i \in 1..Len(raws) : raws[i] = raws[1]

\* Two runs on an interface with an error-terminated method, whose last
\* result the first run has named err.
C8_Witness ==
    /\ Len(raws) = 2
    /\ raws[2] = raws[1]
    /\ \E k \in 1..Len(Found.Methods) :
          /\ ErrorTerminated(Found.Methods[k])
          /\ Found.Methods[k].Results[Len(Found.Methods[k].Results)].Name = "err"
          /\ Len(Found.Methods[k].Params) > 0

FormatWarning == "warning: internal error: invalid Go generated"

\* C9: when format.Source fails the run goes on: a warning is logged and the
\* output returned, and then printed, is the raw text; when it succeeds the
\* output is its result and nothing is logged.
C9_FormatFailureKeepsRawText ==
    Generated =>
        /\ fmtErr # Nil =>
              /\ output = raws[Len(raws)]
              /\ FormatWarning \in Elements(logged)
        /\ fmtErr = Nil =>
              /\ output = GoFormat(raws[Len(raws)])
              /\ FormatWarning \notin Elements(logged)
        /\ pc = "print" => exit = "running"
        /\ pc = "done" => exit = "exit 0" /\ stdout = << output >>

\* format.Source failed and the run ended by printing the raw text.
C9_Witness ==
    /\ pc = "done"
    /\ fmtErr # Nil
    /\ exit = "exit 0"
    /\ stdout = << raws[1] >>
    /\ output # GoFormat(raws[1])
    /\ Len(Found.Methods) = 2

Diagnostics ==
    {"Usage", "Failed to parse", "Interface not found", "panic: nil pointer dereference"}

\* main is past filterTypes, on a parsed file.
Filtered == pc \in {"write", "print", "done"} /\ types # <<>>

Named(name) == {k \in 1..Len(types[1].Interfaces) : types[1].Interfaces[k].Name = name}

\* C10: when no interface of the parsed file has the name asked for, the run
\* ends fatally with "Interface not found" and prints nothing; when some
\* have, the first of them is the one generated.  A run that has ended has
\* either stopped with a diagnostic and printed nothing, or printed one
\* output.
C10_NotFoundIsFatal ==
    /\ (Filtered /\ Named(typeName) = {}) =>
          /\ pc = "done"
          /\ exit = "exit 1"
          /\ logged[Len(logged)] = "Interface not found"
          /\ stdout = <<>>
    /\ (Filtered /\ Named(typeName) # {}) =>
          /\ match \in Named(typeName)
          /\ \A k \in Named(typeName) : match <= k
          /\ exit \in {"running", "exit 0"}
          /\ Generated =>
                Cardinality(Places(raws[1], "func (this * ")) = Len(Found.Methods)
    /\ pc = "done" =>
          \/ /\ exit \in {"exit 1", "exit 2", "panic"}
             /\ logged[Len(logged)] \in Diagnostics
             /\ stdout = <<>>
          \/ /\ exit = "exit 0"
             /\ Len(stdout) = 1
    /\ pc # "done" => exit = "running" /\ stdout = <<>>

\* The file declares two interfaces called Sample; the first, with two
\* methods, is generated and printed.
C10_FirstOfTwoGenerated ==
    /\ pc = "done"
    /\ exit = "exit 0"
    /\ Cardinality(Named(typeName)) = 2
    /\ match = 1
    /\ Len(Found.Methods) = 2
    /\ Len(stdout) = 1

\* The file declares no interface of the name asked for: the run is over,
\* nothing is printed.
C10_WitnessNotFound ==
    /\ pc = "done"
    /\ types # <<>>
    /\ Len(types[1].Interfaces) = 2
    /\ Named(typeName) = {}
    /\ exit = "exit 1"

=============================================================================
